---- MODULE Spec2Model ----
(***************************************************************************)
(* Model of simple_client.py: the MCPClient session wrapper, the two       *)
(* conversions build_openai_tools_schema and tool_result_to_text, and the  *)
(* bounded tool-calling loop of main().                                    *)
(*                                                                         *)
(* Strings are sequences of tokens (a token is a piece of text that is     *)
(* never split; "\n" is a token of its own), so that joining and           *)
(* formatting are computed.  Python's None is the value None below.        *)
(***************************************************************************)
EXTENDS Integers, Sequences, FiniteSets, TLC

VARIABLES
    pc,               \* position of main()
    exc,              \* exception propagating out of main(), or NoExc
    client,           \* MCPClient.client: "None" or "Client"
    conn,             \* state of the fastmcp Client held in MCPClient.client
    remote,           \* operations that reached the fastmcp Client, counted
    openai_tools,     \* main: openai_tools
    messages,         \* main: messages (the transcript)
    msg,              \* main: msg (the last response's message)
    iteration,        \* main: iteration
    tool_calls_made,  \* main: tool_calls_made
    idx,              \* main: position of `for tc in msg.tool_calls`
    calls,            \* log: one entry per client.chat.completions.create call
    sent,             \* log: the messages argument of the latest create call
    invoked,          \* log: one entry per mcp_client.call_tool call
    replies,          \* log: how each create call ended
    starts,           \* log: number of mcp_client.start() calls made by main
    stops,            \* log: number of mcp_client.stop() calls made by main
    final_text,       \* what main prints as "Final response", or None
    nextId,           \* the model endpoint's next tool-call id
    weight,           \* how much non-default environment behaviour was used
    user_input,       \* main: user_input
    ops,              \* SpecSession: number of method calls made so far
    last,             \* SpecSession: the latest method call and how it ended
    arg,              \* SpecText, SpecSchema: the argument of the function applied
    out,              \* SpecText, SpecSchema: what the function returned, or Unset
    stub,             \* SpecReplay: the stub standing for the model endpoint
    frozen            \* SpecReplay: what was kept of the first run, or Unset

vars == <<pc, exc, client, conn, remote, openai_tools, messages, msg, iteration,
          tool_calls_made, idx, calls, replies, sent, invoked, stops, starts, final_text,
          nextId, weight, user_input, ops, last, arg, out, stub, frozen>>

sessionVars == <<client, conn, remote>>
pureVars == <<arg, out>>
replayVars == <<stub, frozen>>
auxVars == <<ops, last, pureVars, replayVars>>
mainVars == <<pc, exc, openai_tools, messages, msg, iteration, tool_calls_made,
              idx, calls, replies, sent, invoked, stops, starts, final_text, nextId, weight,
              user_input>>

(***************************************************************************)
(* Bounds of the model.                                                    *)
(***************************************************************************)
\* Largest number of tool calls in one response of the model endpoint.
MaxBatch == 2
\* Budget of non-default choices of the environment in one run: every extra
\* tool call of a batch, every non-default field of a tool call, a response
\* text, a raising tool, a non-default tool result and a non-default tool
\* list cost one each.
MaxWeight == 2
\* Only the first RichRounds responses of the model endpoint, and the tool
\* results of the first RichRounds rounds, spend from that budget; later ones
\* are the default ones.
RichRounds == 3
\* SpecSession: number of MCPClient method calls in one behaviour.
MaxOps == 4

(***************************************************************************)
(* Python values.                                                          *)
(***************************************************************************)
None == <<"<None>">>
Empty == <<>>                      \* the string ""
NoExc == "none"
Unset == [returned |-> FALSE]      \* no value yet
Value(v) == [returned |-> TRUE, value |-> v]

\* Python truthiness of an optional string.
Truthy(s) == s # None /\ s # Empty

\* `a or b` on optional strings.
Or(a, b) == IF Truthy(a) THEN a ELSE b

(***************************************************************************)
(* class MCPClient.  The fastmcp Client it wraps is outside the            *)
(* repository: conn is what the wrapper did to it ("new": constructed,     *)
(* "entered": __aenter__ returned, "exited": __aexit__ ran after that),    *)
(* and remote counts the operations the wrapper issued on it.              *)
(***************************************************************************)
NotStarted == <<"MCP client not started">>
RemoteError == <<"boom">>

\* MCPClient.__init__
MCPClientInit ==
    /\ client = "None"
    /\ conn = "new"
    /\ remote = [aenter |-> 0, aexit |-> 0, list_tools |-> 0, call_tool |-> 0]

\* What start() can meet: Client(...) raises, __aenter__ raises, or both return.
StartOutcomes == {"ok", "ctor_raises", "aenter_raises"}

\* MCPClient.start: the attribute is assigned before __aenter__ is awaited.
start(o) ==
    /\ client' = IF o = "ctor_raises" THEN client ELSE "Client"
    /\ conn' = CASE o = "ctor_raises" -> conn
                 [] o = "aenter_raises" -> "new"
                 [] OTHER -> "entered"
    /\ remote' = IF o = "ctor_raises" THEN remote
                 ELSE [remote EXCEPT !.aenter = @ + 1]

\* The guard of stop(): `if self.client:`.
stop_guard == client # "None"

\* What __aexit__ can do: on an entered Client it returns; on a Client that was
\* never entered, or was exited before, the wrapper still calls it and the
\* outcome is the library's.
AexitOutcomes == IF stop_guard /\ conn # "entered" THEN {"ok", "raises"} ELSE {"ok"}

\* MCPClient.stop
stop ==
    IF stop_guard
    THEN /\ remote' = [remote EXCEPT !.aexit = @ + 1]
         /\ conn' = IF conn = "entered" THEN "exited" ELSE conn
         /\ client' = client
    ELSE UNCHANGED sessionVars

\* The guard dropped: the remote call is made whatever the attribute holds.
not_started_never == FALSE

\* The guard of list_tools() and call_tool(): `if not self.client: raise`.
not_started == client = "None"

\* MCPClient.list_tools: its effect on the session ...
list_tools ==
    IF not_started THEN UNCHANGED sessionVars
    ELSE /\ remote' = [remote EXCEPT !.list_tools = @ + 1]
         /\ UNCHANGED <<client, conn>>

\* ... and its result, the remote outcome being o (the list l, or a raise).
list_tools_result(o, l) ==
    IF not_started THEN [raised |-> TRUE, err |-> NotStarted, value |-> <<>>]
    ELSE IF o = "raises" THEN [raised |-> TRUE, err |-> RemoteError, value |-> <<>>]
    ELSE [raised |-> FALSE, err |-> Empty, value |-> l]

\* MCPClient.call_tool: its effect on the session ...
call_tool ==
    IF not_started THEN UNCHANGED sessionVars
    ELSE /\ remote' = [remote EXCEPT !.call_tool = @ + 1]
         /\ UNCHANGED <<client, conn>>

\* ... and whether it raises, the remote outcome being o.
call_tool_raises(o) == not_started \/ o = "raises"

\* The exception call_tool raises when it raises.
call_tool_error == IF not_started THEN NotStarted ELSE RemoteError

(***************************************************************************)
(* build_openai_tools_schema.  A tool descriptor is a record               *)
(* [form, name, description, inputSchema]: form "object" is a Tool object  *)
(* (it has the attributes), form "dict" a dictionary, in which a key may   *)
(* be Absent.  A schema is a string; "{}" is the empty dictionary.         *)
(***************************************************************************)
Absent == <<"<absent>">>
EmptyDict == <<"{}">>
EmptyObjectSchema == <<"{type: object, properties: {}}">>
TitleSchema == <<"{type: object, properties: {title}}">>

\* Python truthiness of an optional dictionary.
DictTruthy(d) == d # None /\ d # EmptyDict

\* dict.get(key, default)
Get(v, default) == IF v = Absent THEN default ELSE v

\* One pass of the loop body: the FunctionSpec of one descriptor.
FunctionSpec(tool) ==
    IF tool.form = "object"
    THEN [type |-> "function",
          function |-> [name |-> tool.name,
                        description |-> Or(tool.description, Empty),
                        parameters |-> IF DictTruthy(tool.inputSchema)
                                       THEN tool.inputSchema
                                       ELSE EmptyObjectSchema]]
    ELSE [type |-> "function",
          function |-> [name |-> Get(tool.name, <<"unknown">>),
                        description |-> Get(tool.description, Empty),
                        parameters |-> Get(tool.inputSchema, EmptyObjectSchema)]]

build_openai_tools_schema(tools) == [i \in 1..Len(tools) |-> FunctionSpec(tools[i])]

(***************************************************************************)
(* tool_result_to_text.  A raw result is a record [kind, content, repr]:   *)
(* kind "dict" is a mapping, anything else has no .get; content is         *)
(* [kind, blocks] with kind "list", "other" (present, not a list) or       *)
(* "absent"; repr is what str(result) yields.  A block is                  *)
(* [kind, type, text]; its text is a string, None, Absent or NotAString.   *)
(***************************************************************************)
NotAString == <<"<int>">>

IsStr(t) == t # None /\ t # NotAString /\ t # Absent

\* texts: the text of every dict block whose type is "text", in block order.
RECURSIVE Texts(_)
Texts(blocks) ==
    IF blocks = <<>> THEN <<>>
    ELSE LET b == Head(blocks) IN
         IF b.kind = "dict" /\ b.type = <<"text">>
         THEN <<Get(b.text, Empty)>> \o Texts(Tail(blocks))
         ELSE Texts(Tail(blocks))

\* "\n".join(texts)
RECURSIVE Join(_)
Join(texts) ==
    IF texts = <<>> THEN Empty
    ELSE IF Len(texts) = 1 THEN Head(texts)
    ELSE Head(texts) \o <<"\n">> \o Join(Tail(texts))

\* str.join raises TypeError when an item is not a string.
JoinRaises(texts) == \E i \in 1..Len(texts) : ~IsStr(texts[i])

\* str(result)
Str(result) == <<result.repr>>

\* What an exception raised inside the try block stands for.
Raises == <<"<raises>">>

\* Lines 82-89, the body of the try block: the text it returns, or Raises.
Inspect(result) ==
    IF result.kind # "dict" THEN Raises                  \* no .get: AttributeError
    ELSE LET content == IF result.content.kind = "absent"
                        THEN [kind |-> "list", blocks |-> <<>>]
                        ELSE result.content
         IN IF content.kind = "list"
            THEN IF JoinRaises(Texts(content.blocks)) THEN Raises
                 ELSE Join(Texts(content.blocks))
            ELSE Str(result)

\* The try block without its except clause.
tool_result_to_text_unguarded(result) == Inspect(result)

\* Lines 79-91: the try block, and str(result) on any exception.
tool_result_to_text(result) ==
    IF Inspect(result) = Raises THEN Str(result) ELSE Inspect(result)

(***************************************************************************)
(* json.loads on the argument payloads the model endpoint produces.        *)
(* Parsed arguments are a set of <<key, value>> pairs.                     *)
(***************************************************************************)
TitleJson == <<"{\"title\": \"X\"}">>
BadJson == <<"{\"title\": ">>
TitleArgs == {<<"title", "X">>}
EmptyArgs == {}

json_loads_raises(s) == s # EmptyDict /\ s # TitleJson

json_loads(s) == IF s = TitleJson THEN TitleArgs ELSE EmptyArgs

\* The payload handed on as it came when it does not parse.
ParseArguments_raw(raw) ==
    LET arguments == Or(raw, EmptyDict)
    IN IF json_loads_raises(arguments) THEN {<<"<raw>", arguments[1]>>}
       ELSE json_loads(arguments)

\* Lines 180-185: `arguments or "{}"`, then json.loads with {} on any failure.
ParseArguments(raw) ==
    LET arguments == Or(raw, EmptyDict)
    IN IF json_loads_raises(arguments) THEN EmptyArgs ELSE json_loads(arguments)

(***************************************************************************)
(* The environment of main(): the process environment and console, the     *)
(* MCP server's tool list and tool results, and the model endpoint's       *)
(* responses.  The default choice of each costs nothing; the others are    *)
(* charged to weight.                                                      *)
(***************************************************************************)
ApiKey == <<"sk-test">>
UserRequest == <<"Title: Survey | Questions: required How would you rate me?">>
SystemPrompt == <<"You are a helpful assistant that creates Google Forms. ...">>
Nudge == <<"Continue adding the remaining questions. Don't ask for confirmation - just add them immediately.">>
ErrorPrefix == <<"Error: ">>

CreateForm == <<"create_form">>
AddQuestion == <<"add_text_question">>

DefaultTool == [form |-> "object", name |-> CreateForm,
                description |-> <<"Create a form">>, inputSchema |-> TitleSchema]
BareTool == [form |-> "dict", name |-> AddQuestion,
             description |-> Absent, inputSchema |-> Absent]
ToolLists == {<<DefaultTool>>, <<DefaultTool, BareTool>>}
ToolListCost(l) == IF l = <<DefaultTool>> THEN 0 ELSE 1

TextBlock(t) == [kind |-> "dict", type |-> <<"text">>, text |-> t]
DefaultResult == [kind |-> "dict",
                  content |-> [kind |-> "list", blocks |-> <<TextBlock(<<"Form created">>)>>],
                  repr |-> "{'content': [{'type': 'text', 'text': 'Form created'}]}"]
ObjectResult == [kind |-> "object",
                 content |-> [kind |-> "absent", blocks |-> <<>>],
                 repr |-> "CallToolResult(...)"]
ToolResults == {DefaultResult, ObjectResult}
ToolResultCost(r) == IF r = DefaultResult THEN 0 ELSE 1

\* A tool call as the model endpoint produces it, before it is given its id.
DefaultCall == [type |-> "function",
                function |-> [name |-> CreateForm, arguments |-> TitleJson]]
ToolCalls == [type : {"function", "custom"},
              function : [name : {CreateForm, AddQuestion},
                          arguments : {TitleJson, None, BadJson}]]
ToolCallCost(tc) ==
    (IF tc.type = "function" THEN 0 ELSE 1)
    + (IF tc.function.name = CreateForm THEN 0 ELSE 1)
    + (IF tc.function.arguments = TitleJson THEN 0 ELSE 1)

\* A batch costs its tool calls and one for every tool call beyond the first.
RECURSIVE BatchCost(_)
BatchCost(b) ==
    IF b = <<>> THEN 0
    ELSE ToolCallCost(Head(b)) + (IF Len(b) > 1 THEN 1 ELSE 0) + BatchCost(Tail(b))

\* The sequences of n tool calls whose tool calls cost k at most together.
RECURSIVE CallSeqs(_, _)
CallSeqs(n, k) ==
    IF n = 0 THEN {<<>>}
    ELSE UNION {{<<tc>> \o rest : rest \in CallSeqs(n - 1, k - ToolCallCost(tc))} :
                   tc \in {t \in ToolCalls : ToolCallCost(t) <= k}}

\* The batches a budget of k pays for.
Batches(k) == UNION {CallSeqs(n, k - (n - 1)) : n \in {m \in 1..MaxBatch : m - 1 <= k}}

Contents == {None, <<"Working on it">>}
ContentCost(c) == IF c = None THEN 0 ELSE 1

\* The endpoint numbers the tool calls of the run: ids are unique in a run.
WithIds(b, first) ==
    [i \in 1..Len(b) |-> [id |-> first + i - 1, type |-> b[i].type,
                          function |-> b[i].function]]

(***************************************************************************)
(* main().                                                                 *)
(***************************************************************************)
max_iterations == 10

\* The message dictionaries main() builds.
SystemMessage == [role |-> "system", content |-> SystemPrompt]
UserMessage(text) == [role |-> "user", content |-> text]
AssistantMessage(m) ==
    [role |-> "assistant", content |-> Or(m.content, Empty), tool_calls |-> m.tool_calls]
ToolMessage_no_id(id, text) == [role |-> "tool", tool_call_id |-> 0, content |-> text]
ToolMessage(id, text) == [role |-> "tool", tool_call_id |-> id, content |-> text]

\* `is not None` in place of truthiness: an empty list counts as tool calls.
HasToolCalls_always(m) == m.tool_calls # None

\* `getattr(msg, "tool_calls", None)` as a condition.
HasToolCalls(m) == m.tool_calls # <<>>

\* The tools argument left out of the tool-enabled requests.
ToolCall_no_schema(msgs) ==
    [has_tools |-> TRUE, tools |-> <<>>, tool_choice |-> "auto", n |-> Len(msgs)]

\* The record of one chat.completions.create call.
ToolCall(msgs) ==
    [has_tools |-> TRUE, tools |-> openai_tools, tool_choice |-> "auto", n |-> Len(msgs)]
\* The final request sent like the others, with the tools.
PlainCall_with_tools(msgs) == ToolCall(msgs)
PlainCall(msgs) ==
    [has_tools |-> FALSE, tools |-> <<>>, tool_choice |-> "unset", n |-> Len(msgs)]

\* How a create call ended: it raised, or it returned a message carrying
\* n tool calls.
RaisedReply == [raised |-> TRUE, tool_calls |-> 0]
Reply(n) == [raised |-> FALSE, tool_calls |-> n]

\* No finally clause: the exception leaves main() at once.
OnException_escape == "done"

\* try: ... finally: an exception raised inside the try block runs the finally
\* clause and then leaves main().
OnException == "finally"

\* The exception caught and logged, the run going on to the first request.
Raise_and_go_on(e) ==
    /\ pc' = "first"
    /\ exc' = e

Raise(e) ==
    /\ pc' = OnException
    /\ exc' = e

InitMain ==
    /\ pc = "env"
    /\ exc = NoExc
    /\ MCPClientInit
    /\ openai_tools = <<>>
    /\ messages = <<>>
    /\ msg = [content |-> None, tool_calls |-> <<>>]
    /\ iteration = 0
    /\ tool_calls_made = FALSE
    /\ idx = 0
    /\ calls = <<>>
    /\ sent = <<>>
    /\ invoked = <<>>
    /\ replies = <<>>
    /\ starts = 0
    /\ stops = 0
    /\ final_text = None
    /\ nextId = 1
    /\ weight = 0
    /\ user_input = Empty
    /\ ops = 0
    /\ last = [op |-> "__init__", raised |-> FALSE, err |-> Empty]

Init ==
    /\ InitMain
    /\ arg = Unset
    /\ out = Unset
    /\ stub = Unset
    /\ frozen = Unset

\* Lines 95-126: the environment checks and the prompt, before the try block.
CheckEnv ==
    /\ pc = "env"
    /\ \E api_key \in {None, ApiKey}, path_ok \in BOOLEAN, text \in {Empty, UserRequest} :
          IF ~Truthy(api_key)
          THEN /\ pc' = "done"
               /\ exc' = "RuntimeError: OPENAI_API_KEY missing"
               /\ UNCHANGED user_input
          ELSE IF ~path_ok
          THEN /\ pc' = "done"
               /\ exc' = "RuntimeError: server not found"
               /\ UNCHANGED user_input
          ELSE IF ~Truthy(text)
          THEN /\ pc' = "done"
               /\ user_input' = text
               /\ UNCHANGED exc
          ELSE /\ pc' = "start"
               /\ user_input' = text
               /\ UNCHANGED exc
    /\ UNCHANGED <<sessionVars, openai_tools, messages, msg, iteration, tool_calls_made,
                   idx, calls, replies, sent, invoked, stops, starts, final_text, nextId, weight, auxVars>>

\* Line 131: await mcp_client.start()
StartSession ==
    /\ pc = "start"
    /\ starts' = starts + 1
    /\ \E o \in StartOutcomes :
          /\ start(o)
          /\ IF o = "ok" THEN pc' = "list_tools" /\ UNCHANGED exc
             ELSE Raise("start raised")
    /\ UNCHANGED <<openai_tools, messages, msg, iteration, tool_calls_made, idx, calls, replies,
                   sent, invoked, stops, final_text, nextId, weight, user_input, auxVars>>

\* Lines 132-142: list the tools, build the schema, seed the transcript.
ListTools ==
    /\ pc = "list_tools"
    /\ \E o \in {"ok", "raises"}, l \in ToolLists :
          LET r == list_tools_result(o, l) IN
          /\ list_tools
          /\ IF r.raised
             THEN /\ Raise("list_tools raised")
                  /\ UNCHANGED <<openai_tools, messages, weight>>
             ELSE /\ weight + ToolListCost(l) <= MaxWeight
                  /\ weight' = weight + ToolListCost(l)
                  /\ openai_tools' = build_openai_tools_schema(r.value)
                  /\ messages' = <<SystemMessage, UserMessage(user_input)>>
                  /\ pc' = "first"
                  /\ UNCHANGED exc
    /\ UNCHANGED <<msg, iteration, tool_calls_made, idx, calls, replies, sent, invoked, stops, starts,
                   final_text, nextId, user_input, auxVars>>

\* What is left of the budget for the response or tool result number round.
Budget(round) == IF round <= RichRounds THEN MaxWeight - weight ELSE 0

\* The response texts a budget of k pays for.
ContentsFor(k) == {c \in Contents : ContentCost(c) <= k}

\* What the model endpoint can answer within the budget: a message with its
\* cost.  <<>> as batch is a response without tool calls.
Responses ==
    LET k == Budget(Len(calls) + 1) IN
    {[content |-> c, batch |-> <<>>, cost |-> ContentCost(c)] : c \in ContentsFor(k)}
    \cup {[content |-> None, batch |-> b, cost |-> BatchCost(b)] : b \in Batches(k)}
    \cup UNION {{[content |-> c, batch |-> b, cost |-> BatchCost(b) + 1] :
                    b \in Batches(k - 1)} : c \in ContentsFor(k) \ {None}}

Message(r) ==
    [content |-> r.content,
     tool_calls |-> IF r.batch = <<>> THEN <<>> ELSE WithIds(r.batch, nextId)]

\* Lines 144-169: the first completion request and what follows its response.
FirstRequest ==
    /\ pc = "first"
    /\ calls' = Append(calls, ToolCall(messages))
    /\ sent' = messages
    /\ \/ /\ Raise("completion raised")
          /\ replies' = Append(replies, RaisedReply)
          /\ UNCHANGED <<messages, msg, iteration, nextId, weight>>
       \/ \E r \in Responses :
             /\ msg' = Message(r)
             /\ replies' = Append(replies, Reply(Len(r.batch)))
             /\ nextId' = nextId + Len(r.batch)
             /\ weight' = weight + r.cost
             /\ IF HasToolCalls(msg')
                THEN /\ messages' = Append(messages, AssistantMessage(msg'))
                     /\ iteration' = 0
                     /\ pc' = "while"
                ELSE /\ pc' = "finally"
                     /\ UNCHANGED <<messages, iteration>>
             /\ UNCHANGED exc
    /\ UNCHANGED <<sessionVars, openai_tools, tool_calls_made, idx, invoked, stops, starts,
                   final_text, user_input, auxVars>>

\* A cap of two rounds.
WhileCond_low_cap == iteration < 2

\* The cap taken twice as large.
WhileCond_twice_cap == iteration < 2 * max_iterations

\* The loop condition off by one: one round too many.
WhileCond_le == iteration <= max_iterations

\* Line 171: the loop condition.
WhileCond == iteration < max_iterations

\* Lines 171-176: one test of the loop condition and the start of a round.
WhileHead ==
    /\ pc = "while"
    /\ IF WhileCond
       THEN /\ iteration' = iteration + 1
            /\ tool_calls_made' = FALSE
            /\ idx' = 1
            /\ pc' = "for"
       ELSE /\ pc' = "final"
            /\ UNCHANGED <<iteration, tool_calls_made, idx>>
    /\ UNCHANGED <<exc, sessionVars, openai_tools, messages, msg, calls, replies, sent, invoked,
                   stops, starts, final_text, nextId, weight, user_input, auxVars>>

\* The type of the request not looked at.
IsExecuted_any(tc) == TRUE

\* Line 178: which requests of a batch are executed.
IsExecuted(tc) == tc.type = "function"

\* The flag left as it was in the except branch.
MadeAfterError_unset == tool_calls_made

\* Line 206: tool_calls_made in the except branch.
MadeAfterError == TRUE

\* Lines 199-205: what an exception of the tool call becomes.
ErrorText(e) == ErrorPrefix \o e

\* The batch walked from its end.
CurrentCall_reversed == msg.tool_calls[Len(msg.tool_calls) + 1 - idx]

\* Line 177: the request the for loop is at.
CurrentCall == msg.tool_calls[idx]

\* No except clause around the tool call: its exception leaves the loop.
CatchesToolError_not == FALSE

\* Line 199: `except Exception` around call_tool and tool_result_to_text.
CatchesToolError == TRUE

\* Lines 177-206: one pass of `for tc in msg.tool_calls`.
ExecToolCall ==
    /\ pc = "for"
    /\ LET tc == CurrentCall
           next == IF idx = Len(msg.tool_calls) THEN "after" ELSE "for"
       IN
       IF IsExecuted(tc)
       THEN \E o \in {"ok", "raises"}, result \in ToolResults :
              LET name == tc.function.name
                  args == ParseArguments(tc.function.arguments)
                  raised == call_tool_raises(o)
                  cost == IF raised THEN 1 ELSE ToolResultCost(result)
              IN /\ raised => result = DefaultResult
                 /\ cost <= Budget(iteration)
                 /\ weight' = weight + cost
                 /\ call_tool
                 /\ invoked' = Append(invoked, [name |-> name, arguments |-> args,
                                                id |-> tc.id, raised |-> raised])
                 /\ IF raised /\ ~CatchesToolError
                    THEN /\ Raise("tool raised")
                         /\ UNCHANGED <<messages, tool_calls_made, idx>>
                    ELSE /\ messages' = Append(messages,
                               ToolMessage(tc.id, IF raised THEN ErrorText(call_tool_error)
                                                  ELSE tool_result_to_text(result)))
                         /\ tool_calls_made' = IF raised THEN MadeAfterError ELSE TRUE
                         /\ idx' = idx + 1
                         /\ pc' = next
                         /\ UNCHANGED exc
       ELSE /\ idx' = idx + 1
            /\ pc' = next
            /\ UNCHANGED <<exc, weight, sessionVars, invoked, messages, tool_calls_made>>
    /\ UNCHANGED <<openai_tools, msg, iteration, calls, replies, sent, stops, starts, final_text,
                   nextId, user_input, auxVars>>

\* Lines 208-209: no request of the batch was executed.
BreakNoCalls ==
    /\ pc = "after"
    /\ ~tool_calls_made
    /\ pc' = "final"
    /\ UNCHANGED <<exc, sessionVars, openai_tools, messages, msg, iteration,
                   tool_calls_made, idx, calls, replies, sent, invoked, stops, starts, final_text, nextId,
                   weight, user_input, auxVars>>

\* Line 214: the messages of a continuation request.
ContinueMessages == Append(messages, UserMessage(Nudge))

\* The nudge appended to messages itself before the request.
KeptMessages_with_nudge == ContinueMessages

\* Line 214: `messages + [...]` builds a new list; messages is as it was.
KeptMessages == messages

\* Lines 211-235: the continuation request and what follows its response.
ContinueRequest ==
    /\ pc = "after"
    /\ tool_calls_made
    /\ calls' = Append(calls, ToolCall(ContinueMessages))
    /\ sent' = ContinueMessages
    /\ \/ /\ Raise("completion raised")
          /\ replies' = Append(replies, RaisedReply)
          /\ UNCHANGED <<messages, msg, nextId, weight>>
       \/ \E r \in Responses :
             /\ msg' = Message(r)
             /\ replies' = Append(replies, Reply(Len(r.batch)))
             /\ nextId' = nextId + Len(r.batch)
             /\ weight' = weight + r.cost
             /\ IF HasToolCalls(msg')
                THEN /\ messages' = Append(KeptMessages, AssistantMessage(msg'))
                     /\ pc' = "while"
                ELSE /\ pc' = "final"
                     /\ messages' = KeptMessages
             /\ UNCHANGED exc
    /\ UNCHANGED <<sessionVars, openai_tools, iteration, tool_calls_made, idx, invoked,
                   stops, starts, final_text, user_input, auxVars>>

\* Lines 237-245: the final request, without tools, and the printed answer.
Finalize ==
    /\ pc = "final"
    /\ calls' = Append(calls, PlainCall(messages))
    /\ sent' = messages
    /\ \/ /\ Raise("completion raised")
          /\ replies' = Append(replies, RaisedReply)
          /\ UNCHANGED <<final_text, weight>>
       \/ \E c \in ContentsFor(Budget(Len(calls) + 1)) :
             /\ final_text' = c
             /\ weight' = weight + ContentCost(c)
             /\ replies' = Append(replies, Reply(0))
             /\ pc' = "finally"
             /\ UNCHANGED exc
    /\ UNCHANGED <<sessionVars, openai_tools, messages, msg, iteration, tool_calls_made,
                   idx, invoked, stops, starts, nextId, user_input, auxVars>>

\* Lines 247-248: finally: await mcp_client.stop(), then main() is left.
Finally ==
    /\ pc = "finally"
    /\ stops' = stops + 1
    /\ \E o \in AexitOutcomes :
          /\ stop
          /\ exc' = IF o = "raises" THEN "stop raised" ELSE exc
    /\ pc' = "done"
    /\ UNCHANGED <<openai_tools, messages, msg, iteration, tool_calls_made, idx, calls, replies,
                   starts, sent, invoked, final_text, nextId, weight, user_input, auxVars>>

Next ==
    \/ CheckEnv
    \/ StartSession
    \/ ListTools
    \/ FirstRequest
    \/ WhileHead
    \/ ExecToolCall
    \/ BreakNoCalls
    \/ ContinueRequest
    \/ Finalize
    \/ Finally

Spec == Init /\ [][Next]_vars

\* main() is one flow of control: while a step is possible and every awaited
\* call returns or raises, the next step is taken.
SpecFair == Spec /\ WF_vars(Next)

(***************************************************************************)
(* SpecSession: an MCPClient used on its own, its methods called in any    *)
(* order, each remote operation free to return or to raise.                *)
(***************************************************************************)
Returned(op) == [op |-> op, raised |-> FALSE, err |-> Empty]
Raised(op, e) == [op |-> op, raised |-> TRUE, err |-> e]

SStart ==
    /\ ops < MaxOps
    /\ \E o \in StartOutcomes :
          /\ start(o)
          /\ last' = IF o = "ok" THEN Returned("start") ELSE Raised("start", RemoteError)
    /\ ops' = ops + 1
    /\ UNCHANGED <<mainVars, pureVars, replayVars>>

SStop ==
    /\ ops < MaxOps
    /\ \E o \in AexitOutcomes :
          /\ stop
          /\ last' = IF o = "raises" THEN Raised("stop", RemoteError) ELSE Returned("stop")
    /\ ops' = ops + 1
    /\ UNCHANGED <<mainVars, pureVars, replayVars>>

SListTools ==
    /\ ops < MaxOps
    /\ \E o \in {"ok", "raises"} :
          LET r == list_tools_result(o, <<DefaultTool>>) IN
          /\ list_tools
          /\ last' = IF r.raised THEN Raised("list_tools", r.err) ELSE Returned("list_tools")
    /\ ops' = ops + 1
    /\ UNCHANGED <<mainVars, pureVars, replayVars>>

SCallTool ==
    /\ ops < MaxOps
    /\ \E o \in {"ok", "raises"} :
          /\ call_tool
          /\ last' = IF call_tool_raises(o) THEN Raised("call_tool", call_tool_error)
                     ELSE Returned("call_tool")
    /\ ops' = ops + 1
    /\ UNCHANGED <<mainVars, pureVars, replayVars>>

NextSession ==
    \/ SStart
    \/ SStop
    \/ SListTools
    \/ SCallTool

SpecSession == Init /\ [][NextSession]_vars

(***************************************************************************)
(* SpecText: tool_result_to_text applied to one raw result, of any shape.  *)
(***************************************************************************)
\* Longest list of content blocks of a raw result.
MaxBlocks == 2

\* The content blocks: dictionaries of type "text" whose text is a string,
\* None, not a string or missing, a dictionary of another type, and a block
\* that is not a dictionary.
Blocks ==
    {TextBlock(t) : t \in {<<"Form created">>, Empty, None, NotAString, Absent}}
    \cup {[kind |-> "dict", type |-> <<"image">>, text |-> Absent],
          [kind |-> "other", type |-> Absent, text |-> Absent]}

BlockLists == UNION {[1..n -> Blocks] : n \in 0..MaxBlocks}

\* The raw results: a mapping whose content is a list of blocks, is not a
\* list, or is missing; an object without .get; None.
RawResults ==
    {[kind |-> "dict", content |-> [kind |-> "list", blocks |-> bs], repr |-> "{'content': [...]}"] :
        bs \in BlockLists}
    \cup {[kind |-> "dict", content |-> [kind |-> "other", blocks |-> <<>>],
           repr |-> "{'content': 'done'}"],
          [kind |-> "dict", content |-> [kind |-> "absent", blocks |-> <<>>], repr |-> "{}"],
          ObjectResult,
          [kind |-> "none", content |-> [kind |-> "absent", blocks |-> <<>>], repr |-> "None"]}

InitText ==
    /\ InitMain
    /\ arg \in RawResults
    /\ out = Unset
    /\ stub = Unset
    /\ frozen = Unset

\* result_text = tool_result_to_text(result)
ToText ==
    /\ out = Unset
    /\ out' = Value(tool_result_to_text(arg))
    /\ UNCHANGED <<arg, mainVars, sessionVars, ops, last, replayVars>>

NextText == ToText

SpecText == InitText /\ [][NextText]_vars

(***************************************************************************)
(* SpecSchema: build_openai_tools_schema applied to one list of tool        *)
(* descriptors, of either form.                                            *)
(***************************************************************************)
\* Longest list of tool descriptors.
MaxTools == 2

\* The descriptors: Tool objects, whose description and inputSchema are set
\* or None, and dictionaries, in which each key holds a value, holds None or
\* is missing.
Descriptors ==
    [form : {"object"}, name : {CreateForm},
     description : {<<"Create a form">>, Empty, None},
     inputSchema : {TitleSchema, EmptyDict, None}]
    \cup [form : {"dict"}, name : {AddQuestion, Absent},
          description : {<<"Add a question">>, None, Absent},
          inputSchema : {TitleSchema, None, Absent}]

DescriptorLists == UNION {[1..n -> Descriptors] : n \in 0..MaxTools}

InitSchema ==
    /\ InitMain
    /\ arg \in DescriptorLists
    /\ out = Unset
    /\ stub = Unset
    /\ frozen = Unset

\* openai_tools = build_openai_tools_schema(tools)
BuildSchema ==
    /\ out = Unset
    /\ out' = Value(build_openai_tools_schema(arg))
    /\ UNCHANGED <<arg, mainVars, sessionVars, ops, last, replayVars>>

NextSchema == BuildSchema

SpecSchema == InitSchema /\ [][NextSchema]_vars

(***************************************************************************)
(* Properties.                                                             *)
(***************************************************************************)
ToolRequests == {i \in DOMAIN calls : calls[i].has_tools}
PlainRequests == {i \in DOMAIN calls : ~calls[i].has_tools}
Assistants == {i \in DOMAIN messages : messages[i].role = "assistant"}
ToolAnswers == {i \in DOMAIN messages : messages[i].role = "tool"}

\* The loop is over: control is between the loop and the final request, or
\* the final request has been issued.
LoopEnded == pc = "final" \/ PlainRequests # {}

\* Every tool-enabled request was answered with at least one tool call ...
AlwaysToolCalls ==
    \A i \in ToolRequests :
        i <= Len(replies) /\ ~replies[i].raised /\ replies[i].tool_calls >= 1

\* ... and every batch held a request of type "function".
AlwaysFunctionCalls ==
    /\ AlwaysToolCalls
    /\ \A i \in Assistants :
          \E j \in DOMAIN messages[i].tool_calls : messages[i].tool_calls[j].type = "function"

\* C1 as claimed: when the model endpoint answers every tool-enabled request
\* with at least one tool call (of the one type the loop knows, "function"),
\* the loop makes exactly max_iterations tool-enabled requests, the first one
\* counted, and no run makes more.
C1_CapLawAsClaimed ==
    /\ Cardinality(ToolRequests) <= max_iterations
    /\ LoopEnded /\ AlwaysFunctionCalls => Cardinality(ToolRequests) = max_iterations

\* C1, amended: no run makes more than max_iterations rounds or more than
\* max_iterations + 1 tool-enabled requests (the first one and one after each
\* round); when every tool-enabled request is answered with at least one
\* tool call of type "function", the loop ends after exactly max_iterations
\* rounds and max_iterations + 1 tool-enabled requests.
C1_CapLaw ==
    /\ iteration <= max_iterations
    /\ Cardinality(ToolRequests) <= max_iterations + 1
    /\ Cardinality(ToolRequests) <= iteration + 1
    /\ LoopEnded /\ AlwaysFunctionCalls =>
          /\ iteration = max_iterations
          /\ Cardinality(ToolRequests) = max_iterations + 1

C1_Witness ==
    /\ pc = "final"
    /\ AlwaysFunctionCalls
    /\ iteration = max_iterations
    /\ Cardinality(ToolRequests) = max_iterations + 1

\* The tool calls carried by the assistant messages of a transcript.
Requests(msgs) ==
    UNION {{msgs[i].tool_calls[j] : j \in DOMAIN msgs[i].tool_calls} :
              i \in {k \in DOMAIN msgs : msgs[k].role = "assistant"}}

\* The tool messages of a transcript that answer the request id.
AnswersTo(msgs, id) ==
    {i \in DOMAIN msgs : msgs[i].role = "tool" /\ msgs[i].tool_call_id = id}

IsFunction(tc) == tc.type = "function"

Paired(msgs) ==
    \A tc \in Requests(msgs) : IsFunction(tc) => Cardinality(AnswersTo(msgs, tc.id)) = 1

\* C2: the messages of every completion request issued so far (sent is the
\* latest one's) answer each tool call of each assistant message they carry
\* with exactly one tool message of that id, however the loop ended.  Stated
\* for the requests the loop executes, those of type "function".
C2_Pairing == Paired(sent)

\* The ids of a batch, and of its requests of type "function", in order.
AllIds(batch) == [j \in DOMAIN batch |-> batch[j].id]
FunctionIds(batch) == AllIds(SelectSeq(batch, IsFunction))

InvokedIds == [k \in DOMAIN invoked |-> invoked[k].id]
AnswerIds ==
    LET IsTool(m) == m.role = "tool"
        answers == SelectSeq(messages, IsTool)
    IN [k \in DOMAIN answers |-> answers[k].tool_call_id]

RequestOf(id) == CHOOSE tc \in Requests(messages) : tc.id = id

\* The index of the first assistant message after the one at i (A is the set
\* of their indices), or one past the end of the transcript.
NextAssistant(A, i) ==
    LET later == {j \in A : j > i}
    IN IF later = {} THEN Len(messages) + 1
       ELSE CHOOSE j \in later : \A k \in later : j <= k

\* Dispatch in order, Ids(_) telling which requests of a batch are due: what
\* follows an assistant message are tool messages, answering the due requests
\* in their order: all of them once a later assistant message exists or the
\* for loop is through (and once the loop is over, when whole is set), and the
\* ones before the loop's position while it runs; the invocations made are
\* those of the tool messages, in the same order, each under its request's name.
Dispatched(Ids(_), whole) ==
    LET A == Assistants
        requests == Requests(messages)
    IN /\ InvokedIds = AnswerIds
       /\ \A k \in DOMAIN invoked : \A tc \in requests :
             tc.id = invoked[k].id => invoked[k].name = tc.function.name
       /\ \A i \in A :
             LET next == NextAssistant(A, i)
                 following == SubSeq(messages, i + 1, next - 1)
                 ids == [k \in DOMAIN following |-> following[k].tool_call_id]
             IN /\ \A k \in DOMAIN following : following[k].role = "tool"
                /\ IF next <= Len(messages) \/ pc = "after" \/ (whole /\ LoopEnded)
                   THEN ids = Ids(messages[i].tool_calls)
                   ELSE IF pc = "for"
                   THEN ids = Ids(SubSeq(messages[i].tool_calls, 1, idx - 1))
                   ELSE TRUE

\* C3 as claimed: every request of every batch of an assistant message is
\* invoked once, in the order of the batch, its tool message appended before
\* the next invocation, the tool messages in that order under the request ids.
C3_DispatchAsClaimed == Dispatched(AllIds, TRUE)

\* C3, amended: every batch the loop executes is dispatched in order, one
\* invocation for each request of type "function" (the others are skipped),
\* its tool message appended before the next invocation, the tool messages in
\* that order under the request ids; the batch appended when the loop stops at
\* the cap is not dispatched.
C3_Dispatch == Dispatched(FunctionIds, FALSE)

C3_Witness ==
    /\ pc = "after"
    /\ Len(msg.tool_calls) = 2
    /\ msg.tool_calls[1].function.name # msg.tool_calls[2].function.name
    /\ Len(invoked) = 2
    /\ InvokedIds = AllIds(msg.tool_calls)

\* A tool-enabled request raised: the loop was left by the exception.
LoopAborted == \E i \in ToolRequests : i <= Len(replies) /\ replies[i].raised

\* C4: once the loop has ended after at least one round, exactly one final
\* request is issued: none before the loop is over, it is the last request of
\* the run, it carries the transcript as stored and no tools, and the
\* transcript (hence the tool invocations) is the same ever after.
C4_Finalization ==
    /\ Cardinality(PlainRequests) <= 1
    /\ PlainRequests # {} =>
          /\ pc \in {"finally", "done"}
          /\ iteration >= 1
          /\ PlainRequests = {Len(calls)}
          /\ calls[Len(calls)].tools = <<>>
          /\ calls[Len(calls)].tool_choice = "unset"
          /\ calls[Len(calls)].n = Len(messages)
          /\ sent = messages
    /\ iteration >= 1 /\ pc \in {"finally", "done"} /\ ~LoopAborted =>
          Cardinality(PlainRequests) = 1

C4_Witness ==
    /\ pc = "done"
    /\ exc = NoExc
    /\ iteration >= 1
    /\ Len(invoked) >= 1
    /\ Cardinality(PlainRequests) = 1

\* The first response came and carried no tool call.
FirstWithoutTools ==
    Len(replies) >= 1 /\ ~replies[1].raised /\ replies[1].tool_calls = 0

\* C5: when the first response carries no tool call, the run makes one
\* completion request in all, invokes no tool, makes no final request, and
\* the transcript stays the system message followed by the user message.
C5_FirstWithoutTools ==
    FirstWithoutTools =>
        /\ Len(calls) = 1
        /\ calls[1].has_tools
        /\ PlainRequests = {}
        /\ invoked = <<>>
        /\ remote.call_tool = 0
        /\ messages = <<SystemMessage, UserMessage(user_input)>>
        /\ pc \in {"finally", "done"}

C5_Witness == pc = "done" /\ FirstWithoutTools /\ exc = NoExc /\ stops = 1

\* The number of rounds of a run in which every response but the last of the
\* tool-enabled ones carried tool calls.
Rounds == Cardinality(ToolRequests) - 1

\* The model asked for one tool of type "function" in each of Rounds rounds,
\* then for none, and the final request has been issued.
OneToolPerRound ==
    /\ PlainRequests # {}
    /\ Rounds >= 1
    /\ \A i \in 1..Rounds : replies[i] = Reply(1)
    /\ replies[Rounds + 1] = Reply(0)
    /\ \A i \in Assistants : messages[i].tool_calls[1].type = "function"

\* The transcript is system, user, then Rounds pairs of an assistant message
\* and the tool message answering its request; the invocations are those
\* requests in order; one final request was made.
PairsShape ==
    /\ messages[1].role = "system"
    /\ messages[2].role = "user"
    /\ \A j \in 1..Rounds :
          /\ messages[2 * j + 1].role = "assistant"
          /\ messages[2 * j + 2].role = "tool"
          /\ messages[2 * j + 2].tool_call_id = messages[2 * j + 1].tool_calls[1].id
          /\ invoked[j].id = messages[2 * j + 1].tool_calls[1].id
          /\ invoked[j].name = messages[2 * j + 1].tool_calls[1].function.name
    /\ Len(invoked) = Rounds
    /\ Cardinality(PlainRequests) = 1

\* C6 as claimed: such a run ends with 2k+3 messages, the last one a final
\* assistant message.
C6_ShapeAsClaimed ==
    OneToolPerRound =>
        /\ Len(messages) = 2 * Rounds + 3
        /\ messages[Len(messages)].role = "assistant"
        /\ PairsShape

\* C6, amended: such a run ends with 2k+2 messages, system, user and k pairs
\* (assistant, tool); the final answer is printed, not stored; k invocations
\* in the requested order and one final request.
C6_Shape ==
    OneToolPerRound =>
        /\ Len(messages) = 2 * Rounds + 2
        /\ PairsShape

C6_Witness ==
    /\ pc = "done"
    /\ OneToolPerRound
    /\ Rounds = 2
    /\ invoked[1].name = CreateForm
    /\ invoked[2].name = AddQuestion
    /\ Len(messages) = 6

\* The round in which the request id is due: the number of its assistant
\* message among the assistant messages.
RoundOf(id) ==
    LET at == CHOOSE i \in Assistants :
                  \E j \in DOMAIN messages[i].tool_calls : messages[i].tool_calls[j].id = id
    IN Cardinality({i \in Assistants : i <= at})

\* The for loop of round b is through, and control has left round b.
BatchDone(b) == iteration > b \/ (iteration = b /\ pc # "for")
RoundLeft(b) == iteration > b \/ (iteration = b /\ pc \notin {"for", "after"})

InvocationsOf(id) == {k \in DOMAIN invoked : invoked[k].id = id}

\* C7: an invocation that raised is answered by exactly one tool message with
\* the request's id and the error text; the requests of type "function" left
\* in its batch are invoked all the same; and the round is followed by the
\* next tool-enabled completion request.
C7_ToolFaultAbsorbed ==
    \A k \in DOMAIN invoked :
        invoked[k].raised =>
            LET id == invoked[k].id
                b == RoundOf(id)
                batch == (CHOOSE i \in Assistants :
                             Cardinality({j \in Assistants : j <= i}) = b)
            IN /\ Cardinality(AnswersTo(messages, id)) = 1
               /\ \A i \in AnswersTo(messages, id) :
                     messages[i].content \in {ErrorPrefix \o RemoteError,
                                              ErrorPrefix \o NotStarted}
               /\ BatchDone(b) =>
                     \A j \in DOMAIN messages[batch].tool_calls :
                         LET tc == messages[batch].tool_calls[j] IN
                         IsFunction(tc) => Cardinality(InvocationsOf(tc.id)) = 1
               /\ RoundLeft(b) =>
                     /\ Cardinality(ToolRequests) >= b + 1
                     /\ calls[b + 1].has_tools

C7_Witness ==
    /\ Len(invoked) >= 2
    /\ invoked[1].raised
    /\ RoundOf(invoked[1].id) = RoundOf(invoked[2].id)
    /\ Cardinality(ToolRequests) >= 2

\* The payload of a request does not parse.
Invalid(tc) == json_loads_raises(Or(tc.function.arguments, EmptyDict))

\* C8: a request of type "function" whose payload does not parse is invoked
\* all the same, once, under its name and with the empty argument set, and
\* gets its tool message; the run goes on.
C8_ParseFaultRecovered ==
    \A tc \in Requests(messages) :
        IsFunction(tc) /\ Invalid(tc) =>
            /\ \A k \in InvocationsOf(tc.id) :
                  /\ invoked[k].name = tc.function.name
                  /\ invoked[k].arguments = EmptyArgs
                  /\ Cardinality(AnswersTo(messages, tc.id)) = 1
            /\ BatchDone(RoundOf(tc.id)) => Cardinality(InvocationsOf(tc.id)) = 1
            /\ RoundLeft(RoundOf(tc.id)) => Cardinality(ToolRequests) >= RoundOf(tc.id) + 1

C8_Witness ==
    /\ Len(invoked) >= 1
    /\ Invalid(RequestOf(invoked[1].id))
    /\ invoked[1].arguments = EmptyArgs
    /\ ~invoked[1].raised
    /\ Cardinality(ToolRequests) >= 2

\* C9: a run that called start() leaves main() only after stop() was called,
\* once, as its last step, whatever the exit path.
C9_StopAlwaysRuns ==
    /\ pc = "done" /\ starts >= 1 => stops = 1
    /\ pc # "done" => stops = 0
    /\ starts = 0 => stops = 0

C9_Witness ==
    /\ pc = "done"
    /\ iteration >= 1
    /\ LoopAborted
    /\ stops = 1

\* A step that is a call of stop().
StopStep == ops' = ops + 1 /\ last'.op = "stop"

\* C10: stop() on a session that was never started, whose start() failed, or
\* that was stopped before (in each case there is no entered connection)
\* issues no operation on the connection and does not fail.
C10_StopIdempotent ==
    [][StopStep /\ conn # "entered" => remote' = remote /\ ~last'.raised]_vars

\* A configuration or connection fault occurred: the key or the server path
\* is missing, start() raised, or list_tools() raised.
ConfigFault ==
    \/ exc \in {"RuntimeError: OPENAI_API_KEY missing", "RuntimeError: server not found"}
    \/ starts = 1 /\ conn = "new"
    \/ remote.list_tools >= 1 /\ messages = <<>>

\* No completion request was issued, no tool invoked, no final text produced.
NothingDone ==
    /\ calls = <<>>
    /\ invoked = <<>>
    /\ remote.call_tool = 0
    /\ final_text = None

\* C11: after a configuration or connection fault the run is on its way out
\* with an exception, and it has issued no completion request, invoked no
\* tool and produced no final text.
C11_ConfigFaultFatal ==
    ConfigFault => exc # NoExc /\ pc \in {"finally", "done"} /\ NothingDone

C11_Witness ==
    /\ pc = "done"
    /\ exc = "list_tools raised"
    /\ remote.list_tools = 1
    /\ stops = 1
    /\ NothingDone

\* A completion request raised.
CompletionRaised == \E i \in DOMAIN replies : replies[i].raised

\* The run is over and it reached its output: every request was answered,
\* and after a tool round the final request was made.
OutputReached ==
    /\ pc = "done"
    /\ exc = NoExc
    /\ Len(replies) = Len(calls)
    /\ ~CompletionRaised
    /\ iteration >= 1 => Cardinality(PlainRequests) = 1

\* C12 as claimed: once the transcript is seeded (the session is open and
\* the tool list fetched) no fault ends the run as a failure: the run ends
\* with its output.
C12_AbsorbedAsClaimed ==
    /\ messages # <<>> => exc = NoExc
    /\ messages # <<>> /\ pc = "done" => OutputReached

\* C12, amended: once the transcript is seeded, the only fault that ends
\* the run as a failure is a completion request (first, continuation or
\* final) that raises; a payload that does not parse, a tool that raises and
\* a result of another shape are absorbed, and a run in which no completion
\* request raised ends with its output.
C12_Absorbed ==
    /\ messages # <<>> /\ exc # NoExc =>
          /\ exc = "completion raised"
          /\ replies[Len(replies)].raised
          /\ pc \in {"finally", "done"}
    /\ messages # <<>> /\ pc = "done" /\ ~CompletionRaised => OutputReached

C12_Witness ==
    /\ OutputReached
    /\ \E k \in DOMAIN invoked : invoked[k].raised
    /\ \E tc \in Requests(messages) : IsFunction(tc) /\ Invalid(tc)

\* A step that is a call of list_tools() or of call_tool().
QueryStep == ops' = ops + 1 /\ last'.op \in {"list_tools", "call_tool"}

\* The remote operation the call op issues was issued once more, and no other.
Reached(op) ==
    remote' = IF op = "list_tools" THEN [remote EXCEPT !.list_tools = @ + 1]
              ELSE [remote EXCEPT !.call_tool = @ + 1]

\* C13: the attribute client is None until a call of start() assigns it, so
\* it is None on a session on which start() was not called; list_tools() and
\* call_tool() then raise the not-started error and issue no remote
\* operation; on a session whose start() succeeded (the connection is
\* entered) they issue their remote operation, and fail only if it fails.
C13_LifecycleGuard ==
    [][/\ client = "None" /\ client' # "None" => last'.op = "start"
       /\ QueryStep /\ client = "None" =>
             /\ last'.raised
             /\ last'.err = NotStarted
             /\ UNCHANGED sessionVars
       /\ QueryStep /\ conn = "entered" =>
             /\ Reached(last'.op)
             /\ last'.raised => last'.err = RemoteError
             /\ UNCHANGED <<client, conn>>]_vars

C13_Witness ==
    /\ client = "None"
    /\ remote.aenter = 0
    /\ last = Raised("call_tool", NotStarted)
    /\ remote.call_tool = 0
    /\ ops >= 2

\* The tool list was fetched once, before the first completion request, and
\* openai_tools is the schema built from a list the session can return.
FetchedOnce ==
    /\ remote.list_tools <= 1
    /\ calls # <<>> =>
          /\ remote.list_tools = 1
          /\ openai_tools \in {build_openai_tools_schema(l) : l \in ToolLists}

\* C14 as claimed: the tool list is fetched once, and every completion
\* request of the run carries the schema built from it.
C14_SchemaAsClaimed ==
    /\ FetchedOnce
    /\ \A i \in DOMAIN calls : calls[i].has_tools /\ calls[i].tools = openai_tools

\* C14, amended: the tool list is fetched once, before the first completion
\* request; the first request and every continuation request carry the
\* schema built from it, the same one, with tool_choice auto; the final
\* request carries no tools.
C14_Schema ==
    /\ FetchedOnce
    /\ calls # <<>> => calls[1].has_tools
    /\ \A i \in ToolRequests :
          calls[i].tools = openai_tools /\ calls[i].tool_choice = "auto"
    /\ \A i \in PlainRequests : calls[i].tools = <<>>

C14_Witness ==
    /\ pc = "done"
    /\ Len(openai_tools) = 2
    /\ Cardinality(ToolRequests) >= 2
    /\ Cardinality(PlainRequests) = 1
    /\ calls[2].tools = build_openai_tools_schema(<<DefaultTool, BareTool>>)

\* A Python string: a sequence of tokens, none of them the mark of a value
\* that is not a string.
IsString(v) ==
    /\ v \in Seq({v[i] : i \in DOMAIN v})
    /\ \A i \in DOMAIN v : <<v[i]>> \notin {None, NotAString, Absent, Raises}

\* C16: tool_result_to_text returns, and returns a string, whatever the raw
\* result is.
C16_ToTextTotal == out # Unset => IsString(out.value)

C16_Witness ==
    /\ out # Unset
    /\ arg.kind = "dict"
    /\ arg.content.kind = "list"
    /\ \E i \in DOMAIN arg.content.blocks : arg.content.blocks[i] = TextBlock(NotAString)
    /\ out = Value(Str(arg))

\* C17: the schema built from a list of descriptors has one FunctionSpec per
\* descriptor, in order and under its name; its description is not None (and
\* is "" when the descriptor has none) and its parameters are not None (and
\* are the empty-object schema when the descriptor has none).
C17_SchemaDefaulting ==
    out # Unset =>
        /\ Len(out.value) = Len(arg)
        /\ \A i \in DOMAIN arg :
              /\ out.value[i].type = "function"
              /\ out.value[i].function.name = Get(arg[i].name, <<"unknown">>)
              /\ out.value[i].function.description # None
              /\ out.value[i].function.parameters # None
              /\ arg[i].description = Absent => out.value[i].function.description = Empty
              /\ arg[i].inputSchema = Absent =>
                    out.value[i].function.parameters = EmptyObjectSchema

\* The nudge messages of a list of messages.
Nudges(msgs) == {i \in DOMAIN msgs : msgs[i] = UserMessage(Nudge)}

IsPrefix(a, b) == Len(a) <= Len(b) /\ a = SubSeq(b, 1, Len(a))

\* A step that issues a completion request: the first one carries the
\* seeded transcript; a continuation request carries the transcript as
\* stored, followed by the nudge, the only one it holds; the final request
\* carries the transcript as stored, without a nudge.
RequestShape ==
    IF Len(calls') = Len(calls) + 1
    THEN LET c == calls'[Len(calls')] IN
         /\ c.n = Len(sent')
         /\ Len(calls') = 1 =>
               sent' = messages /\ sent' = <<SystemMessage, UserMessage(user_input)>>
         /\ Len(calls') > 1 /\ c.has_tools =>
               /\ sent' = Append(messages, UserMessage(Nudge))
               /\ Nudges(sent') = {Len(sent')}
         /\ ~c.has_tools => sent' = messages /\ Nudges(sent') = {}
    ELSE calls' = calls /\ sent' = sent

\* The transcript is seeded once and then grows by assistant and tool
\* messages appended at its end.
AppendOnly ==
    \/ messages' = messages
    \/ messages = <<>> /\ messages' = <<SystemMessage, UserMessage(user_input)>>
    \/ /\ messages # <<>>
       /\ Len(messages') = Len(messages) + 1
       /\ IsPrefix(messages, messages')
       /\ messages'[Len(messages')].role \in {"assistant", "tool"}

\* C18: every continuation request carries exactly one nudge, as its last
\* message, after the stored transcript; the stored transcript and the
\* final request never hold a nudge; the transcript only grows, by assistant
\* and tool messages appended at its end.
C18_NudgeOneShot == [][Nudges(messages') = {} /\ RequestShape /\ AppendOnly]_vars

C18_Witness ==
    /\ pc = "while"
    /\ Len(calls) = 3
    /\ Nudges(sent) = {Len(sent)}
    /\ Len(sent) = 7
    /\ Len(messages) = 7
    /\ Nudges(messages) = {}

\* The bounds of a run: rounds, completion requests by kind and in all, and
\* the iteration count reported at line 237 when the loop has ended.
RunBounds ==
    /\ iteration \in 0..max_iterations
    /\ Cardinality(ToolRequests) <= max_iterations + 1
    /\ Cardinality(PlainRequests) <= 1
    /\ Len(calls) <= max_iterations + 2
    /\ remote.call_tool = Len(invoked)
    /\ LoopEnded => iteration \in 1..max_iterations

\* C19: every run ends, whatever the model endpoint answers, and within the
\* bounds: at most max_iterations rounds, at most max_iterations + 2
\* completion requests, an iteration count between 1 and max_iterations
\* reported once tools were requested.
C19_BoundedTermination == <>(pc = "done") /\ []RunBounds

C19_Witness ==
    /\ pc = "done"
    /\ exc = NoExc
    /\ iteration = max_iterations
    /\ Len(calls) = max_iterations + 2
    /\ Cardinality(ToolRequests) = max_iterations + 1

\* The batch of the assistant message at i holds no request of type "function".
NoFunctionCall(i) ==
    \A j \in DOMAIN messages[i].tool_calls : ~IsFunction(messages[i].tool_calls[j])

\* The rank of the assistant message at i: the round its batch is due in.
Rank(i) == Cardinality({j \in Assistants : j <= i})

\* C20: a request whose type is not "function" is never invoked and never
\* answered by a tool message; once the for loop is through a batch without
\* a request of type "function", the loop is over with no continuation
\* request after that round, the batch's assistant message is the last
\* message of the transcript, and the final request, once issued, carries
\* that transcript, the requests of its last message unanswered.
C20_NonFunctionSkipped ==
    /\ \A tc \in Requests(messages) :
          ~IsFunction(tc) => InvocationsOf(tc.id) = {} /\ AnswersTo(messages, tc.id) = {}
    /\ \A i \in Assistants :
          NoFunctionCall(i) /\ RoundLeft(Rank(i)) =>
              /\ iteration = Rank(i)
              /\ LoopEnded
              /\ Cardinality(ToolRequests) = Rank(i)
              /\ Len(messages) = i
              /\ PlainRequests # {} =>
                    /\ sent = messages
                    /\ \A tc \in Requests(sent) : tc \in Requests(<<messages[i]>>) =>
                          AnswersTo(sent, tc.id) = {}

C20_Witness ==
    /\ pc = "done"
    /\ exc = NoExc
    /\ iteration = 2
    /\ Len(invoked) = 1
    /\ Len(calls) = 3
    /\ messages[Len(messages)].role = "assistant"
    /\ NoFunctionCall(Len(messages))
    /\ sent = messages

(***************************************************************************)
(* SpecReplay: main() run against a deterministic stub of the model        *)
(* endpoint and a tool provider that always returns the default result,    *)
(* then lines 144-248 run again over the transcript as it was at one of     *)
(* the first run's tool-enabled completion requests.                       *)
(***************************************************************************)
\* The stubs ask for one tool per request for at most MaxStubRounds rounds,
\* or for ever.
MaxStubRounds == 3

\* A stub: for how many answered requests it goes on asking for a tool,
\* whether it asks for more only when the request ends with the nudge, and
\* what it asks for after the first answer.
Stubs ==
    [rounds : 0..MaxStubRounds \cup {max_iterations + 1},
     needs_nudge : BOOLEAN,
     second : {DefaultCall,
               [DefaultCall EXCEPT !.function.name = AddQuestion],
               [DefaultCall EXCEPT !.type = "custom"]}]

\* What a request tells the stub: the tool messages it carries, and whether
\* it ends with the nudge.
Answered(req) == Cardinality({i \in DOMAIN req : req[i].role = "tool"})
Nudged(req) == req # <<>> /\ req[Len(req)] = UserMessage(Nudge)

\* The stub's response, a function of the request: the batch it asks for.
StubBatch(st, req) ==
    IF /\ Answered(req) < st.rounds
       /\ st.needs_nudge /\ Answered(req) > 0 => Nudged(req)
    THEN <<IF Answered(req) = 1 THEN st.second ELSE DefaultCall>>
    ELSE <<>>

\* A step in which the environment is the stub and the default tool: a
\* completion request returns what the stub answers to it, and a tool call
\* returns the default result.
Stubbed ==
    /\ Len(calls') > Len(calls) =>
          /\ ~replies'[Len(replies')].raised
          /\ calls'[Len(calls')].has_tools =>
                msg' = [content |-> None,
                        tool_calls |-> WithIds(StubBatch(stub, sent'), nextId)]
          /\ ~calls'[Len(calls')].has_tools => final_text' = None
    /\ Len(invoked') > Len(invoked) =>
          /\ ~invoked'[Len(invoked')].raised
          /\ messages'[Len(messages')].content = tool_result_to_text(DefaultResult)

StubFirstRequest == FirstRequest /\ Stubbed
StubExecToolCall == ExecToolCall /\ Stubbed
StubContinueRequest == ContinueRequest /\ Stubbed
StubFinalize == Finalize /\ Stubbed

\* The invocations of a log, by name and arguments.
Calls(log) == [k \in DOMAIN log |-> [name |-> log[k].name, arguments |-> log[k].arguments]]

\* The first run is over: the transcript is put back to what it was when the
\* tool-enabled request number i was about to be issued, what the first run
\* invoked from there on is kept, and lines 144-248 start again.
Restart ==
    /\ pc = "done"
    /\ exc = NoExc
    /\ frozen = Unset
    /\ \E i \in ToolRequests :
          LET keep == IF i = 1 THEN calls[i].n ELSE calls[i].n - 1
              transcript == SubSeq(messages, 1, keep)
              before == Answered(transcript)
          IN /\ frozen' = [at |-> i,
                           invocations |-> Calls(SubSeq(invoked, before + 1, Len(invoked))),
                           capped |-> /\ iteration = max_iterations
                                      /\ HasToolCalls(msg)]
             /\ messages' = transcript
             /\ nextId' = Cardinality(Requests(transcript)) + 1
    /\ pc' = "first"
    /\ conn' = "entered"
    /\ stops' = 0
    /\ msg' = [content |-> None, tool_calls |-> <<>>]
    /\ iteration' = 0
    /\ tool_calls_made' = FALSE
    /\ idx' = 0
    /\ calls' = <<>>
    /\ sent' = <<>>
    /\ invoked' = <<>>
    /\ replies' = <<>>
    /\ final_text' = None
    /\ weight' = 0
    /\ UNCHANGED <<exc, client, remote, openai_tools, starts, user_input, ops, last,
                   pureVars, stub>>

InitReplay ==
    /\ InitMain
    /\ arg = Unset
    /\ out = Unset
    /\ stub \in Stubs
    /\ frozen = Unset

NextReplay ==
    \/ CheckEnv
    \/ StartSession
    \/ ListTools
    \/ StubFirstRequest
    \/ WhileHead
    \/ StubExecToolCall
    \/ BreakNoCalls
    \/ StubContinueRequest
    \/ StubFinalize
    \/ Finally
    \/ Restart

SpecReplay == InitReplay /\ [][NextReplay]_vars

\* The second run is over.
Replayed == frozen # Unset /\ pc = "done"

====
